---- MODULE Spec2Model ----
(***************************************************************************)
(* A model of chores.py: the weekly chore assignment.                      *)
(*                                                                         *)
(*   seek_loop / improve          the exchange search and the greedy loop  *)
(*   get_from_current_cycle/main  the cycle baseline and weekly rotation   *)
(*   add_to_history               the history records                      *)
(*                                                                         *)
(* Python lists are sequences (1-based here, 0-based in the source), a     *)
(* dict is a sequence of <<key, value>> pairs in insertion order, and the  *)
(* preference table prefs[name][chore] is a function of functions.         *)
(***************************************************************************)
EXTENDS Integers, Sequences, FiniteSets, TLC

\* ------------------------------------------------------------------ bounds

\* Miseries are drawn from 1..MaxCost.
MaxCost == 2

\* ---------------------------------------------------------------- universe

\* The residents, in spreadsheet order (get_preferences, all_names).
all_names == <<"A", "B", "C">>

\* The filler chore added when residents outnumber chores.
Wild == "Wild"

\* The chores of the preference tables drawn for improve.
PrefChores == {"Wild", "Lawn", "Trash"}

NameSet == {all_names[i] : i \in 1..Len(all_names)}

Costs == 1..MaxCost

\* ----------------------------------------------------------------- helpers

\* list.index(x): the first position of x in s (0 when absent).
RECURSIVE IndexFrom(_, _, _)
IndexFrom(s, x, i) ==
    IF i > Len(s) THEN 0
    ELSE IF s[i] = x THEN i
    ELSE IndexFrom(s, x, i + 1)

index(s, x) == IndexFrom(s, x, 1)

\* x in s, for a list s.
InList(x, s) == \E i \in 1..Len(s) : s[i] = x

\* The list s is free of repeated elements.
Distinct(s) == \A i, j \in 1..Len(s) : s[i] = s[j] => i = j

\* The sum of a list of numbers.
RECURSIVE SumSeq(_)
SumSeq(s) == IF s = <<>> THEN 0 ELSE Head(s) + SumSeq(Tail(s))

\* The concatenation of a list of lists.
RECURSIVE Flatten(_)
Flatten(ss) == IF ss = <<>> THEN <<>> ELSE Head(ss) \o Flatten(Tail(ss))

\* The sublist of s at the positions satisfying Keep, in order.
FilterIdx(s, Keep(_)) ==
    LET RECURSIVE F(_)
        F(i) == IF i > Len(s) THEN <<>>
                ELSE (IF Keep(i) THEN <<s[i]>> ELSE <<>>) \o F(i + 1)
    IN F(1)

\* F(v), with v evaluated once.
With(v, F(_)) == CHOOSE r \in {F(x) : x \in {v}} : TRUE

\* --------------------------------------------------------------- seek_loop

\* The answer "no loop": (False, 0).
NoLoop == [loop |-> <<>>, improvement |-> 0]

\* The filter of desired_switches: a chore of misery m is wanted by a person
\* whose current misery is current_misery; an even trade only once the
\* branch already holds some improvement (the 1e-10 of the source makes the
\* first comparison strict).
WantsLax(m, current_misery, improvement_so_far) ==
    m <= current_misery

Wants(m, current_misery, improvement_so_far) ==
    IF improvement_so_far = 0 THEN m < current_misery
    ELSE m <= current_misery

\* np.argmax: the first position of the greatest improvement.
ArgMaxLast(poss) ==
    CHOOSE i \in 1..Len(poss) :
        /\ \A j \in 1..Len(poss) : poss[j].improvement <= poss[i].improvement
        /\ \A j \in (i+1)..Len(poss) : poss[j].improvement < poss[i].improvement

ArgMax(poss) ==
    CHOOSE i \in 1..Len(poss) :
        /\ \A j \in 1..Len(poss) : poss[j].improvement <= poss[i].improvement
        /\ \A j \in 1..(i-1) : poss[j].improvement < poss[i].improvement

\* The improvement of a branch once a person of misery current_misery takes
\* a chore of misery m: improvement_so_far + current_misery - m.
GainOfLastStep(improvement_so_far, current_misery, m) ==
    current_misery - m

Gain(improvement_so_far, current_misery, m) ==
    improvement_so_far + current_misery - m

\* The loop and improvement seek_loop returns for the list of possibilities
\* poss: the best one, or the sad news.
BestOf(poss) ==
    IF Len(poss) > 0 THEN poss[ArgMax(poss)] ELSE NoLoop

\* A branch that was found is added to the possibilities.
IfFound(found) == IF found.loop # <<>> THEN <<found>> ELSE <<>>

\* The search goes on from a desired person who does not close the loop:
\* on the initial person, or when not restricted to pairwise swaps.
GoesOnAlways(ll, people_already_included) == TRUE

GoesOn(ll, people_already_included) == ll \/ Len(people_already_included) = 0

RECURSIVE seek_loop(_, _, _, _, _, _, _)
seek_loop(nm, ch, pf, curr_person, people_already_included, improvement_so_far, ll) ==
    LET i_name == index(nm, curr_person)
        current_misery == pf[curr_person][ch[i_name]]
        barred == {curr_person} \cup
                  {people_already_included[j] :
                       j \in 2..Len(people_already_included)}
        Desired(i) == /\ nm[i] \notin barred
                      /\ Wants(pf[curr_person][ch[i]], current_misery,
                               improvement_so_far)
        GainWith(n) == Gain(improvement_so_far, current_misery,
                            pf[curr_person][ch[index(nm, n)]])
        Branch(n) ==
            IF Len(people_already_included) > 0
                   /\ n = people_already_included[1]
            THEN <<[loop |-> Append(people_already_included, curr_person),
                    improvement |-> GainWith(n)]>>
            ELSE IF GoesOn(ll, people_already_included)
            THEN With(seek_loop(nm, ch, pf, n,
                                Append(people_already_included, curr_person),
                                GainWith(n), ll),
                      IfFound)
            ELSE <<>>
        Possibilities(desired_switches) ==
            Flatten([k \in 1..Len(desired_switches) |->
                         Branch(desired_switches[k])])
    IN With(With(FilterIdx(nm, Desired), Possibilities), BestOf)

\* ------------------------------------------------------------------ misery

\* The numerator of misery(): the summed misery of an assignment.  The source
\* divides it by len(chores), which an exchange never changes.
total_misery(nm, ch, pf) ==
    SumSeq([i \in 1..Len(nm) |-> pf[nm[i]][ch[i]]])

\* ----------------------------------------------------------------- improve

\* The exchange of improve for the asker n, assignment by assignment: each
\* person of the loop takes the chore of the next one, and the last one takes
\* nchore, the chore the asker held before.
ApplyLoopReversed(nm, ch, loop, n) ==
    LET last == ch[index(nm, loop[Len(loop)])]
        RECURSIVE Shift(_, _)
        Shift(c, k) ==
            IF k <= 1 THEN c
            ELSE Shift([c EXCEPT ![index(nm, loop[k])] =
                                      c[index(nm, loop[k - 1])]], k - 1)
    IN [Shift(ch, Len(loop)) EXCEPT ![index(nm, loop[1])] = last]

ApplyLoopNoSave(nm, ch, loop, n) ==
    LET RECURSIVE Shift(_, _)
        Shift(c, k) ==
            IF k >= Len(loop) THEN c
            ELSE Shift([c EXCEPT ![index(nm, loop[k])] =
                                      c[index(nm, loop[k + 1])]], k + 1)
        shifted == Shift(ch, 1)
    IN [shifted EXCEPT ![index(nm, loop[Len(loop)])] = shifted[index(nm, n)]]

ApplyLoop(nm, ch, loop, n) ==
    LET nchore == ch[index(nm, n)]
        RECURSIVE Shift(_, _)
        Shift(c, k) ==
            IF k >= Len(loop) THEN c
            ELSE Shift([c EXCEPT ![index(nm, loop[k])] =
                                      c[index(nm, loop[k + 1])]], k + 1)
    IN [Shift(ch, 1) EXCEPT ![index(nm, loop[Len(loop)])] = nchore]

\* The argument restricted_askers: None (the default) or a list of names.
None == [none |-> TRUE, list |-> <<>>]

Some(l) == [none |-> FALSE, list |-> l]

\* restricted_askers if restricted_askers else names: None and the empty
\* list are both false, and give every name.
Askers(ra, nm) == IF ra.none \/ ra.list = <<>> THEN nm ELSE ra.list

\* The list s without its element at position b.
Without(s, b) ==
    [j \in 1..(Len(s) - 1) |-> IF j < b THEN s[j] ELSE s[j + 1]]

\* sorted(askers, key=-misery): a stable sort, most miserable first.
RECURSIVE SortByMisery(_, _, _, _)
SortByMisery(askers, nm, ch, pf) ==
    IF askers = <<>> THEN <<>>
    ELSE LET key(n) == pf[n][ch[index(nm, n)]]
             b == CHOOSE i \in 1..Len(askers) :
                      /\ \A j \in 1..Len(askers) :
                             key(askers[j]) <= key(askers[i])
                      /\ \A j \in 1..(i-1) : key(askers[j]) < key(askers[i])
         IN With(Without(askers, b),
                 LAMBDA rest : <<askers[b]>> \o SortByMisery(rest, nm, ch, pf))

\* One turn of the for loop of improve for the asker n: the loop sought, and
\* the chores after the exchange (unchanged when no loop is found).
Ask(nm, ch, pf, n, ll) ==
    With(seek_loop(nm, ch, pf, n, <<>>, 0, ll),
         LAMBDA found :
             [loop |-> found.loop,
              improvement |-> found.improvement,
              chores |-> IF found.loop = <<>> THEN ch
                         ELSE ApplyLoop(nm, ch, found.loop, n)])

\* The test that ends the while loop: another pass is made after a pass
\* that made a trade.
AnotherPassNever(made) == FALSE

AnotherPass(made) == made

\* made_trade at the start of a pass: reset to False, whatever it was.
StartOfPassKept(made) == made

StartOfPass(made) == FALSE

\* One pass through the asking order from position i on.
RECURSIVE Pass(_, _, _, _, _, _, _)
Pass(nm, ch, pf, order, i, made, ll) ==
    IF i > Len(order) THEN [chores |-> ch, made_trade |-> made]
    ELSE With(Ask(nm, ch, pf, order[i], ll),
              LAMBDA a : Pass(nm, a.chores, pf, order, i + 1,
                              made \/ a.loop # <<>>, ll))

\* The while loop of improve: passes until one makes no trade.
RECURSIVE Passes(_, _, _, _, _)
Passes(nm, ch, pf, order, ll) ==
    With(Pass(nm, ch, pf, order, 1, StartOfPass(TRUE), ll),
         LAMBDA p : IF AnotherPass(p.made_trade)
                    THEN Passes(nm, p.chores, pf, order, ll)
                    ELSE p.chores)

\* improve(names, chores, prefs, restricted_askers, largeloop) as a function.
improve(nm, ch, pf, ra, ll) ==
    Passes(nm, ch, pf, SortByMisery(Askers(ra, nm), nm, ch, pf), ll)

\* ------------------------------------------------------------------ weekinfo

\* Dates are counted in weeks from the epoch: the Monday of week w is w.
\* The number of entire fourweeks that have elapsed.
FourWeekNo(w) == w \div 4

\* The Monday of the four-week cycle of week w.
MonCy(w) == 4 * FourWeekNo(w)

\* --------------------------------------------------- get_from_current_cycle

\* A row of the history is [mon |-> date, assig |-> <<<<name, chore>>, ...>>],
\* the items of the dict in their order.
cc_names_of(h) == [i \in 1..Len(h.assig) |-> h.assig[i][1]]

cc_chores_of(h) == [i \in 1..Len(h.assig) |-> h.assig[i][2]]

\* The row reversed(hist) meets first with the date moncy (0 when none).
RECURSIVE LastWith(_, _, _)
LastWith(hist, moncy, i) ==
    IF i = 0 THEN 0
    ELSE IF hist[i].mon = moncy THEN i
    ELSE LastWith(hist, moncy, i - 1)

\* "Wild"+str(nwild)
WildTag(nwild) == "Wild" \o ToString(nwild)

\* Each wildcard of s gets its number, counted from the left.
RECURSIVE TagFrom(_, _, _)
TagFrom(s, i, nwild) ==
    IF i > Len(s) THEN <<>>
    ELSE IF s[i] = Wild THEN <<WildTag(nwild + 1)>> \o TagFrom(s, i + 1, nwild + 1)
    ELSE <<s[i]>> \o TagFrom(s, i + 1, nwild)

TagWilds(s) == TagFrom(s, 1, 0)

\* "Wild" in chore, for the chores of this model: none of the real chores
\* has Wild in its name, a wildcard and a numbered wildcard have.
\* (the numbers go up to n).
HasWild(chore, n) == chore \in {Wild} \cup {WildTag(k) : k \in 1..n}

StripWilds(s) == [i \in 1..Len(s) |-> IF HasWild(s[i], Len(s)) THEN Wild ELSE s[i]]

\* What a call gives: the list it returns, or the exception it raises.
Returned(l) == [raised |-> "", chores |-> l]

Raised(e) == [raised |-> e, chores |-> <<>>]

\* new_chores+=[chore], on what the rest of the loop gives.
Prepend(chore, r) == IF r.raised # "" THEN r ELSE Returned(<<chore>> \o r.chores)

\* The loop over the names from position i on, with the extra chores left:
\* a person of the cycle start whose chore is valid this week keeps it,
\* anybody else gets extra_chores[0], which raises when the list is empty.
RECURSIVE Allot(_, _, _, _, _, _)
Allot(nm, i, cc_names, cc_chores, ch, extra_chores) ==
    IF i > Len(nm) THEN Returned(<<>>)
    ELSE IF InList(nm[i], cc_names) /\ InList(cc_chores[index(cc_names, nm[i])], ch)
    THEN Prepend(cc_chores[index(cc_names, nm[i])], Allot(nm, i + 1, cc_names, cc_chores, ch, extra_chores))
    ELSE IF extra_chores = <<>> THEN Raised("IndexError")
    ELSE Prepend(Head(extra_chores), Allot(nm, i + 1, cc_names, cc_chores, ch, Tail(extra_chores)))

\* The baseline of the names nm and the chores ch of this week, from the
\* row of the cycle's Monday. The assert fails when there is no such row; the
\* unpacking of zip(*[]) fails when nobody of that row is in nm.
get_from_current_cycle(hist, moncy, nm, ch) ==
    LET k == LastWith(hist, moncy, Len(hist))
        h == hist[k]
        here(i) == InList(cc_names_of(h)[i], nm)
        cc_names == FilterIdx(cc_names_of(h), here)
        cc_chores == TagWilds(FilterIdx(cc_chores_of(h), here))
        tagged == TagWilds(ch)
        fresh(i) == ~InList(tagged[i], cc_chores)
        extra_chores == FilterIdx(tagged, fresh)
        r == Allot(nm, 1, cc_names, cc_chores, tagged, extra_chores)
    IN IF k = 0 THEN Raised("AssertionError")
       ELSE IF cc_names = <<>> THEN Raised("ValueError")
       ELSE IF r.raised # "" THEN r
       ELSE Returned(StripWilds(r.chores))

\* ---------------------------------------------------- the rotations of main

\* deque(ch).rotate(k): k steps to the right.
Rotate(ch, k) == [i \in 1..Len(ch) |-> ch[((i - 1 - k) % Len(ch)) + 1]]

\* The baseline of a new chore cycle.
FreshCycle(ch, w) == Rotate(ch, FourWeekNo(w) % Len(ch))

\* The chores that rotate weekly, in the order main takes them.
weekly == <<"Wild", "Lawn", "Dishes">>

\* [i for (i,c) in enumerate(chores) if c==chore], counted from 1.
Positions(ch, chore) ==
    LET RECURSIVE P(_)
        P(i) == IF i > Len(ch) THEN <<>>
                ELSE (IF ch[i] = chore THEN <<i>> ELSE <<>>) \o P(i + 1)
    IN P(1)

\* The position i2 the holder at position i is bumped to (both from 1).
BumpTo(i, w, n) == (((i - 1) + ((w % (n - 1)) + 1)) % n) + 1

\* chores[i]=chores[i2]; chores[i2]=chore
BumpNoMove(ch, i, i2, chore) == [ch EXCEPT ![i2] = chore]

Bump(ch, i, i2, chore) == [ch EXCEPT ![i] = ch[i2], ![i2] = chore]

\* if n not in sad: sad+=[n]
AddSad(s, n) == IF InList(n, s) THEN s ELSE Append(s, n)

\* The people a bump puts in sad.
SadOfFirstOnly(s, nm, i, i2) == AddSad(s, nm[i])

SadOf(s, nm, i, i2) == AddSad(AddSad(s, nm[i]), nm[i2])

\* ----------------------------------------------------------- add_to_history

\* dict(zip(names,chores)) as the list of its items.
Zip(nm, ch) == [i \in 1..Len(nm) |-> <<nm[i], ch[i]>>]

\* The week is already recorded: the test of line 634.
AlreadyRecorded(hist, mon) == Len(hist) > 0 /\ hist[Len(hist)].mon = mon

add_to_history(hist, mon, assig) ==
    IF AlreadyRecorded(hist, mon)
    THEN [hist EXCEPT ![Len(hist)] = [mon |-> mon, assig |-> assig]]
    ELSE Append(hist, [mon |-> mon, assig |-> assig])

\* ------------------------------------------------------------------- state

VARIABLES
    names,              \* the residents of this week, a list
    chores,             \* the chore of each resident, aligned with names
    prefs,              \* prefs[name][chore], the misery table
    restricted_askers,  \* improve's argument: None or a list of names
    largeloop,          \* improve's argument: FALSE allows pairwise swaps only
    asking_order,       \* improve: the askers, most miserable first
    ask_i,              \* improve: the position of the for loop in asking_order
    loop,               \* improve: the loop seek_loop returned for this asker
    improvement,        \* improve: the improvement seek_loop returned with it
    made_trade,         \* improve: a trade was made in this pass
    historical_misery,  \* improve: the misery after each exchange
    start_chores,       \* the chores improve was called with
    old_chores,         \* the chores before the last exchange
    old_loop,           \* the loop of the last exchange
    visited,            \* the assignments improve has left behind
    weekno,             \* main: the week number of weekinfo
    hist,               \* main: the history, a list of rows
    week_chores,        \* main: the chores get_current_situation returned
    raised,             \* main: the exception get_from_current_cycle raised, "" if none
    do_full_improvement, \* main: a full improvement is to be done
    baseline,           \* main: the baseline printed at line 697
    sad,                \* main: the people the weekly rotation disturbed
    rot_chore,          \* main: the position of the loop of line 703 in weekly
    rot_todo,           \* main: the positions the loop of line 704 has yet to take
    bumps,              \* main: the pairs <<i, i2>> of the bumps made so far
    all_chores,         \* get_current_situation: the chores of the spreadsheet
    oot,                \* get_current_situation: the last answer to "Is anyone out of town?"
    sk,                 \* get_current_situation: the last answer to "Which chores to skip?"
    pc                  \* the position of the program

vars == <<names, chores, prefs, restricted_askers, largeloop, asking_order, ask_i, loop, improvement, made_trade, historical_misery, start_chores, old_chores, old_loop, visited, weekno, hist, week_chores, raised, do_full_improvement, baseline, sad, rot_chore, rot_todo, bumps, all_chores, oot, sk, pc>>

\* The variables of the questions of get_current_situation.
askvars == <<all_chores, oot, sk>>

\* get_current_situation is not followed question by question.
AskNotRun ==
    /\ all_chores = <<>>
    /\ oot = <<>>
    /\ sk = <<>>

\* The variables of main up to its call of improve.
mainvars == <<weekno, hist, week_chores, raised, do_full_improvement, baseline, sad, rot_chore, rot_todo, bumps>>

\* The variables of the loops of improve.
loopvars == <<asking_order, ask_i, loop, improvement, made_trade, historical_misery, old_chores, old_loop, visited>>

\* main has not come to them yet.
MainNotRun ==
    /\ weekno = 0
    /\ hist = <<>>
    /\ week_chores = <<>>
    /\ raised = ""
    /\ do_full_improvement = FALSE
    /\ baseline = <<>>
    /\ sad = <<>>
    /\ rot_chore = 0
    /\ rot_todo = <<>>
    /\ bumps = <<>>

\* improve is not called yet.
ImproveNotRun ==
    /\ restricted_askers = None
    /\ largeloop = TRUE
    /\ asking_order = <<>>
    /\ ask_i = 1
    /\ loop = <<>>
    /\ improvement = 0
    /\ made_trade = FALSE
    /\ historical_misery = <<>>
    /\ start_chores = <<>>
    /\ old_chores = <<>>
    /\ old_loop = <<>>
    /\ visited = {}

\* ------------------------------------------------- the inputs of improve

\* The assignments improve starts from: three distinct chores, and one chore
\* with two fillers.
StartChores == {<<"Lawn", "Trash", "Wild">>, <<"Wild", "Lawn", "Wild">>}

\* The calls of improve: the full improvement of main (no restricted_askers,
\* large loops), its single-switch improvement (a list of disturbed people,
\* here empty or of two, pairwise swaps only), and one restricted asker with
\* large loops.
Calls ==
    { [ra |-> None, ll |-> TRUE],
      [ra |-> Some(<<>>), ll |-> FALSE],
      [ra |-> Some(<<"C", "A">>), ll |-> FALSE],
      [ra |-> Some(<<"B">>), ll |-> TRUE] }

\* ------------------------------------------------------- improve, by steps

\* A table of three people who each rank the chores 1, 2, 3 (the greatest
\* misery get_preferences admits with three rows): A likes Trash, B the
\* filler, C the lawn.
RankedPrefs ==
    [n \in NameSet |->
        IF n = "A" THEN [c \in PrefChores |-> IF c = "Lawn" THEN 3 ELSE IF c = "Trash" THEN 1 ELSE 2]
        ELSE IF n = "B" THEN [c \in PrefChores |-> IF c = "Lawn" THEN 2 ELSE IF c = "Trash" THEN 3 ELSE 1]
        ELSE [c \in PrefChores |-> IF c = "Lawn" THEN 1 ELSE IF c = "Trash" THEN 2 ELSE 3]]

\* get_preferences has returned the table; improve is not called yet.
InitImprove ==
    /\ names = all_names
    /\ prefs \in [NameSet -> [PrefChores -> Costs]] \cup {RankedPrefs}
    /\ chores = <<>>
    /\ ImproveNotRun
    /\ MainNotRun
    /\ pc = "main"
    /\ AskNotRun

\* improve is called and runs up to line 533: the chores are copied, the
\* asking order is computed, the first misery is recorded and seek_loop has
\* answered the first asker.
EnterImprove ==
    /\ pc = "main"
    /\ \E c \in Calls, ch \in StartChores :
         \E order \in {SortByMisery(Askers(c.ra, names), names, ch, prefs)} :
          /\ restricted_askers' = c.ra
          /\ largeloop' = c.ll
          /\ chores' = ch
          /\ asking_order' = order
          /\ ask_i' = 1
          /\ \E f \in {seek_loop(names, ch, prefs, order[1], <<>>, 0, c.ll)} :
                 loop' = f.loop /\ improvement' = f.improvement
          /\ made_trade' = FALSE
          /\ historical_misery' = <<total_misery(names, ch, prefs)>>
          /\ start_chores' = ch
          /\ old_chores' = ch
    /\ pc' = "seek"
    /\ UNCHANGED <<names, prefs, old_loop, visited>>
    /\ UNCHANGED mainvars
    /\ UNCHANGED askvars

\* The for loop goes on to the asker at position i, with the chores ch:
\* seek_loop is called for that asker.
Seek(i, ch) ==
    /\ ask_i' = i
    /\ pc' = "seek"
    /\ \E f \in {seek_loop(names, ch, prefs, asking_order[i], <<>>, 0, largeloop)} :
           loop' = f.loop /\ improvement' = f.improvement

\* The end of a turn of the for loop, with the chores ch: the next asker,
\* or at the end of the asking order another pass or the return.
EndTurn(made, ch) ==
    IF ask_i < Len(asking_order)
    THEN made_trade' = made /\ Seek(ask_i + 1, ch)
    ELSE IF AnotherPass(made)
    THEN made_trade' = StartOfPass(made) /\ Seek(1, ch)
    ELSE /\ made_trade' = made
         /\ pc' = "done"
         /\ UNCHANGED <<ask_i, loop, improvement>>

\* seek_loop returned a loop: the exchange is made and the misery recorded.
Trade ==
    /\ pc = "seek"
    /\ loop # <<>>
    /\ \E ch \in {ApplyLoop(names, chores, loop, asking_order[ask_i])} :
          /\ chores' = ch
          /\ historical_misery' = Append(historical_misery, total_misery(names, ch, prefs))
          /\ EndTurn(TRUE, ch)
    /\ old_chores' = chores
    /\ old_loop' = loop
    /\ visited' = visited \cup {chores}
    /\ UNCHANGED <<names, prefs, restricted_askers, largeloop, asking_order, start_chores>>
    /\ UNCHANGED mainvars
    /\ UNCHANGED askvars

\* seek_loop returned no loop: continue.
NoTrade ==
    /\ pc = "seek"
    /\ loop = <<>>
    /\ EndTurn(made_trade, chores)
    /\ UNCHANGED <<names, chores, prefs, restricted_askers, largeloop, asking_order, historical_misery, start_chores, old_chores, old_loop, visited>>
    /\ UNCHANGED mainvars
    /\ UNCHANGED askvars

NextImprove == EnterImprove \/ Trade \/ NoTrade

Spec == InitImprove /\ [][NextImprove]_vars

\* improve is sequential code: it runs on as long as it has a step to take.
FairSpec == Spec /\ WF_vars(NextImprove)

\* ---------------------------------------------------- the inputs of main

\* Weeks are drawn from 0..MaxWeek.
MaxWeek == 5

\* The real chores a spreadsheet may list, in spreadsheet order.
real_chores == <<"Lawn", "Dishes", "Trash">>

\* The sublists of s.
Sublists(s) == {FilterIdx(s, LAMBDA i : i \in P) : P \in SUBSET (1..Len(s))}

\* n wildcards.
Wilds(n) == [i \in 1..n |-> Wild]

\* The chores get_current_situation returns for the residents nm in town,
\* the chores allc of the spreadsheet and the accepted answer skip to
\* "Which chores to skip?". With as many chores as people, line 153 reads
\* the local chores before its assignment.
get_current_situation(nm, allc, skip) ==
    IF Len(nm) = Len(allc) THEN Raised("UnboundLocalError")
    ELSE IF Len(nm) > Len(allc)
    THEN Returned(allc \o Wilds(Len(nm) - Len(allc)))
    ELSE Returned(FilterIdx(allc, LAMBDA i : ~InList(allc[i], skip)))

\* The loop of line 128 accepts the answer out: every name is a resident.
OotAccepted(out) == \A i \in 1..Len(out) : InList(out[i], all_names)

\* names=[name for name in all_names if name not in oot]
InTown(out) == FilterIdx(all_names, LAMBDA i : ~InList(all_names[i], out))

\* The loop of line 170 accepts the answer skip: every chore is one of the
\* spreadsheet, and the list has one entry per chore too many.
SkAccepted(skip, nm, allc) ==
    /\ \A i \in 1..Len(skip) : InList(skip[i], allc)
    /\ Len(skip) = Len(allc) - Len(nm)

\* The accepted answers main is followed from: each chore to skip is named
\* once (no answer is asked for unless there are more chores than people).
Skips(nm, allc) ==
    IF Len(nm) >= Len(allc) THEN {<<>>}
    ELSE {skip \in Sublists(allc) : SkAccepted(skip, nm, allc)}

\* The residents in town: somebody is.
Presents == Sublists(all_names) \ {<<>>}

\* The chores of a row of the history: the real ones distinct.
RowChores(n) ==
    {ch \in [1..n -> {real_chores[i] : i \in 1..Len(real_chores)} \cup {Wild}] :
        \A i, j \in 1..n : ch[i] = ch[j] /\ ch[i] # Wild => i = j}

\* The dicts of the rows of the history.
Assigs == UNION {{Zip(nm, ch) : ch \in RowChores(Len(nm))} : nm \in Presents}

\* The histories read: none, the row of a cycle's first week, and that row
\* followed by the row of the week after.
Histories ==
    {<<>>}
    \cup {<<[mon |-> MonCy(w), assig |-> a]>> : w \in 0..MaxWeek, a \in Assigs}
    \cup {<<[mon |-> MonCy(w), assig |-> a], [mon |-> MonCy(w) + 1, assig |-> a]>> :
              w \in 0..MaxWeek, a \in Assigs}

\* The preference table plays no part before improve is called.
FlatPrefs == [n \in NameSet |-> [c \in PrefChores |-> 1]]

\* ------------------------------------------------------------ main, by steps

\* get_current_situation and weekinfo have returned.
InitMain ==
    /\ \E nm \in Presents, allc \in Sublists(real_chores) :
         \E skip \in Skips(nm, allc) :
           \E r \in {get_current_situation(nm, allc, skip)} :
              /\ r.raised = ""
              /\ names = nm
              /\ chores = r.chores
              /\ week_chores = r.chores
    /\ weekno \in 0..MaxWeek
    /\ prefs = FlatPrefs
    /\ hist = <<>>
    /\ raised = ""
    /\ do_full_improvement = FALSE
    /\ baseline = <<>>
    /\ sad = <<>>
    /\ rot_chore = 0
    /\ rot_todo = <<>>
    /\ bumps = <<>>
    /\ ImproveNotRun
    /\ pc = "situation"
    /\ AskNotRun

\* hist=read_history()
ReadHistory ==
    /\ pc = "situation"
    /\ hist' \in Histories
    /\ pc' = "read"
    /\ UNCHANGED <<names, chores, prefs, restricted_askers, largeloop, start_chores, loopvars>>
    /\ UNCHANGED <<weekno, week_chores, raised, do_full_improvement, baseline, sad, rot_chore, rot_todo, bumps>>
    /\ UNCHANGED askvars

\* The start of a cycle: the chores are rotated by the fourweekno, and the
\* else block of line 680 is skipped.
NewCycle ==
    /\ pc = "read"
    /\ weekno % 4 = 0
    /\ chores' = FreshCycle(chores, weekno)
    /\ baseline' = FreshCycle(chores, weekno)
    /\ do_full_improvement' = TRUE
    /\ pc' = "initial"
    /\ UNCHANGED <<names, prefs, restricted_askers, largeloop, start_chores, loopvars>>
    /\ UNCHANGED <<weekno, hist, week_chores, raised, sad, rot_chore, rot_todo, bumps>>
    /\ UNCHANGED askvars

\* The baseline ch is printed and the loop of line 703 starts with Wild.
StartRotation(ch) ==
    /\ chores' = ch
    /\ baseline' = ch
    /\ sad' = <<>>
    /\ rot_chore' = 1
    /\ rot_todo' = Positions(ch, weekly[1])
    /\ bumps' = <<>>
    /\ pc' = "rotate"

\* A later week of the cycle, and get_from_current_cycle returned.
ContinueCycle ==
    /\ pc = "read"
    /\ weekno % 4 # 0
    /\ \E r \in {get_from_current_cycle(hist, MonCy(weekno), names, chores)} :
          /\ r.raised = ""
          /\ raised' = ""
          /\ do_full_improvement' = FALSE
          /\ StartRotation(r.chores)
    /\ UNCHANGED <<names, prefs, restricted_askers, largeloop, start_chores, loopvars>>
    /\ UNCHANGED <<weekno, hist, week_chores>>
    /\ UNCHANGED askvars

\* A later week of the cycle, and get_from_current_cycle raised: the bare
\* except of line 688 makes a new cycle, and main goes on to line 695.
FallBack ==
    /\ pc = "read"
    /\ weekno % 4 # 0
    /\ \E r \in {get_from_current_cycle(hist, MonCy(weekno), names, chores)} :
          /\ r.raised # ""
          /\ raised' = r.raised
          /\ do_full_improvement' = TRUE
          /\ StartRotation(FreshCycle(chores, weekno))
    /\ UNCHANGED <<names, prefs, restricted_askers, largeloop, start_chores, loopvars>>
    /\ UNCHANGED <<weekno, hist, week_chores>>
    /\ UNCHANGED askvars

\* One turn of the loop of line 704: the holder at the head of rot_todo is
\* bumped, and the two people go in sad.
BumpOne ==
    /\ pc = "rotate"
    /\ rot_todo # <<>>
    /\ Len(chores) > 1
    /\ \E i \in {Head(rot_todo)} :
         \E i2 \in {BumpTo(i, weekno, Len(chores))} :
           /\ chores' = Bump(chores, i, i2, weekly[rot_chore])
           /\ sad' = SadOf(sad, names, i, i2)
           /\ bumps' = Append(bumps, <<i, i2>>)
    /\ rot_todo' = Tail(rot_todo)
    /\ UNCHANGED <<names, prefs, restricted_askers, largeloop, start_chores, loopvars>>
    /\ UNCHANGED <<weekno, hist, week_chores, raised, do_full_improvement, baseline, rot_chore, pc>>
    /\ UNCHANGED askvars

\* With one chore, weekno%(len(chores)-1) divides by zero at line 705,
\* outside of the try.
BumpFails ==
    /\ pc = "rotate"
    /\ rot_todo # <<>>
    /\ Len(chores) = 1
    /\ pc' = "crashed"
    /\ UNCHANGED <<names, chores, prefs, restricted_askers, largeloop, start_chores, loopvars>>
    /\ UNCHANGED mainvars
    /\ UNCHANGED askvars

\* The loop of line 704 is over: line 703 takes the next weekly chore.
NextChore ==
    /\ pc = "rotate"
    /\ rot_todo = <<>>
    /\ rot_chore < Len(weekly)
    /\ rot_chore' = rot_chore + 1
    /\ rot_todo' = Positions(chores, weekly[rot_chore + 1])
    /\ UNCHANGED <<names, chores, prefs, restricted_askers, largeloop, start_chores, loopvars>>
    /\ UNCHANGED <<weekno, hist, week_chores, raised, do_full_improvement, baseline, sad, bumps, pc>>
    /\ UNCHANGED askvars

\* The loop of line 703 is over: the initial condition is printed.
Rotated ==
    /\ pc = "rotate"
    /\ rot_todo = <<>>
    /\ rot_chore = Len(weekly)
    /\ pc' = "initial"
    /\ UNCHANGED <<names, chores, prefs, restricted_askers, largeloop, start_chores, loopvars>>
    /\ UNCHANGED mainvars
    /\ UNCHANGED askvars

\* Lines 722-727: improve is called, with all askers and large loops for a
\* full improvement, with the askers sad and pairwise swaps otherwise.
CallImprove ==
    /\ pc = "initial"
    /\ restricted_askers' = (IF do_full_improvement THEN None ELSE Some(sad))
    /\ largeloop' = do_full_improvement
    /\ start_chores' = chores
    /\ pc' = "improve"
    /\ UNCHANGED <<names, chores, prefs, loopvars>>
    /\ UNCHANGED mainvars
    /\ UNCHANGED askvars

NextMain ==
    \/ ReadHistory
    \/ NewCycle
    \/ ContinueCycle
    \/ FallBack
    \/ BumpOne
    \/ BumpFails
    \/ NextChore
    \/ Rotated
    \/ CallImprove

MainSpec == InitMain /\ [][NextMain]_vars

\* --------------------------------------------- a run of main, to its end

\* The chores of the preference tables of a run.
RunChores == {real_chores[i] : i \in 1..Len(real_chores)} \cup {Wild}

\* The chores of a table in a fixed order, and the chore k places on.
chore_order == <<"Wild", "Lawn", "Dishes", "Trash">>

ChoreAfter(c, k) == chore_order[((index(chore_order, c) - 1 + k) % Len(chore_order)) + 1]

\* The tables of a run: A has any row of miseries, B the same row one chore
\* on, C two chores on.
RunPrefs ==
    {[n \in NameSet |-> [c \in RunChores |-> row[ChoreAfter(c, index(all_names, n) - 1)]]] :
        row \in [RunChores -> Costs]}

\* The chores of a week with everybody in town.
RunWeekChores ==
    {get_current_situation(all_names, allc, <<>>).chores :
        allc \in {a \in Sublists(real_chores) : Len(a) < Len(all_names)}}

\* The histories of a run: none, and the row of the cycle's Monday, of
\* everybody, of two people with wildcards, and of one person.
RunAssigs ==
    { <<<<"A", "Lawn">>, <<"B", "Wild">>, <<"C", "Trash">>>>,
      <<<<"A", "Wild">>, <<"B", "Wild">>>>,
      <<<<"C", "Dishes">>>> }

RunHistories(w) == {<<>>} \cup {<<[mon |-> MonCy(w), assig |-> a]>> : a \in RunAssigs}

\* get_preferences, get_current_situation, weekinfo and read_history have
\* returned.
InitRun ==
    /\ names = all_names
    /\ week_chores \in RunWeekChores
    /\ chores = week_chores
    /\ prefs \in RunPrefs
    /\ weekno \in 0..MaxWeek
    /\ hist \in RunHistories(weekno)
    /\ raised = ""
    /\ do_full_improvement = FALSE
    /\ baseline = <<>>
    /\ sad = <<>>
    /\ rot_chore = 0
    /\ rot_todo = <<>>
    /\ bumps = <<>>
    /\ ImproveNotRun
    /\ AskNotRun
    /\ pc = "read"

\* improve runs up to line 533 with the arguments of main: the chores are
\* copied, the asking order is computed, the first misery is recorded and
\* seek_loop has answered the first asker.
BeginImprove ==
    /\ pc = "improve"
    /\ \E order \in {SortByMisery(Askers(restricted_askers, names), names, chores, prefs)} :
          /\ asking_order' = order
          /\ ask_i' = 1
          /\ \E f \in {seek_loop(names, chores, prefs, order[1], <<>>, 0, largeloop)} :
                 loop' = f.loop /\ improvement' = f.improvement
    /\ made_trade' = FALSE
    /\ historical_misery' = <<total_misery(names, chores, prefs)>>
    /\ old_chores' = chores
    /\ pc' = "seek"
    /\ UNCHANGED <<names, chores, prefs, restricted_askers, largeloop, start_chores, old_loop, visited>>
    /\ UNCHANGED mainvars
    /\ UNCHANGED askvars

\* improve has returned: line 734 adds the week to the history.
RecordWeek ==
    /\ pc = "done"
    /\ hist' = add_to_history(hist, weekno, Zip(names, chores))
    /\ pc' = "recorded"
    /\ UNCHANGED <<names, chores, prefs, restricted_askers, largeloop, start_chores, loopvars>>
    /\ UNCHANGED <<weekno, week_chores, raised, do_full_improvement, baseline, sad, rot_chore, rot_todo, bumps>>
    /\ UNCHANGED askvars

NextRun ==
    \/ NewCycle
    \/ ContinueCycle
    \/ FallBack
    \/ BumpOne
    \/ NextChore
    \/ Rotated
    \/ CallImprove
    \/ BeginImprove
    \/ Trade
    \/ NoTrade
    \/ RecordWeek

RunSpec == InitRun /\ [][NextRun]_vars

\* ------------------------------------------------- add_to_history, by calls

\* Histories hold at most MaxRows rows, of the weeks 0..MaxDate.
MaxRows == 3

MaxDate == 2

\* The assignments recorded.
FinalChores == {<<"Lawn", "Dishes", "Trash">>, <<"Trash", "Lawn", "Dishes">>}

\* The histories with at most one row per date, of up to two rows.
StartHistories ==
    {<<>>}
    \cup {<<[mon |-> d, assig |-> Zip(all_names, ch)]>> : d \in 0..MaxDate, ch \in FinalChores}
    \cup {<<[mon |-> p[1], assig |-> Zip(all_names, ch)], [mon |-> p[2], assig |-> Zip(all_names, ch)]>> :
              p \in {q \in (0..MaxDate) \X (0..MaxDate) : q[1] # q[2]}, ch \in FinalChores}

InitHistory ==
    /\ names = all_names
    /\ chores = <<>>
    /\ prefs = FlatPrefs
    /\ hist \in StartHistories
    /\ weekno = 0
    /\ week_chores = <<>>
    /\ raised = ""
    /\ do_full_improvement = FALSE
    /\ baseline = <<>>
    /\ sad = <<>>
    /\ rot_chore = 0
    /\ rot_todo = <<>>
    /\ bumps = <<>>
    /\ ImproveNotRun
    /\ pc = "history"
    /\ AskNotRun

\* A run of main in the week mon ends with the chores ch, and the last row
\* of the history is of that week: it is overwritten.
Overwrite ==
    /\ pc = "history"
    /\ \E mon \in 0..MaxDate, ch \in FinalChores :
          /\ AlreadyRecorded(hist, mon)
          /\ weekno' = mon
          /\ chores' = ch
          /\ hist' = add_to_history(hist, mon, Zip(names, ch))
    /\ UNCHANGED <<names, prefs, restricted_askers, largeloop, start_chores, loopvars, pc>>
    /\ UNCHANGED <<week_chores, raised, do_full_improvement, baseline, sad, rot_chore, rot_todo, bumps>>
    /\ UNCHANGED askvars

\* The same, and the last row is of another week: a row is added.
AddRow ==
    /\ pc = "history"
    /\ Len(hist) < MaxRows
    /\ \E mon \in 0..MaxDate, ch \in FinalChores :
          /\ ~AlreadyRecorded(hist, mon)
          /\ weekno' = mon
          /\ chores' = ch
          /\ hist' = add_to_history(hist, mon, Zip(names, ch))
    /\ UNCHANGED <<names, prefs, restricted_askers, largeloop, start_chores, loopvars, pc>>
    /\ UNCHANGED <<week_chores, raised, do_full_improvement, baseline, sad, rot_chore, rot_todo, bumps>>
    /\ UNCHANGED askvars

NextHistory == Overwrite \/ AddRow

HistorySpec == InitHistory /\ [][NextHistory]_vars

\* ----------------------------------------- get_current_situation, by answers

\* Answers name at most MaxAnswer names or chores.
MaxAnswer == 2

\* The lists of up to n elements of S.
ListsUpTo(S, n) == UNION {[1..k -> S] : k \in 0..n}

\* The answers to "Is anyone out of town?": residents, and a stranger.
OotAnswers == ListsUpTo(NameSet \cup {"Z"}, MaxAnswer)

\* The answers to "Which chores to skip?": chores, and an unknown one.
SkAnswers == ListsUpTo({real_chores[i] : i \in 1..Len(real_chores)} \cup {"Mow"}, MaxAnswer)

\* get_current_situation is called with the names and chores of the
\* spreadsheet.
InitAsk ==
    /\ all_chores \in Sublists(real_chores)
    /\ oot = <<>>
    /\ sk = <<>>
    /\ names = <<>>
    /\ chores = <<>>
    /\ prefs = FlatPrefs
    /\ MainNotRun
    /\ ImproveNotRun
    /\ pc = "ask_oot"

\* An answer names somebody who is no housemate: the question is asked again.
OotRejected ==
    /\ pc = "ask_oot"
    /\ \E out \in OotAnswers : ~OotAccepted(out) /\ oot' = out
    /\ UNCHANGED <<names, chores, prefs, restricted_askers, largeloop, start_chores, loopvars, pc>>
    /\ UNCHANGED <<all_chores, sk>>
    /\ UNCHANGED mainvars

\* An answer is accepted: the residents in town are listed and counted.
OotAnswered ==
    /\ pc = "ask_oot"
    /\ \E out \in OotAnswers : OotAccepted(out) /\ oot' = out /\ names' = InTown(out)
    /\ pc' = "counted"
    /\ UNCHANGED <<chores, prefs, restricted_askers, largeloop, start_chores, loopvars>>
    /\ UNCHANGED <<all_chores, sk>>
    /\ UNCHANGED mainvars

\* As many chores as people: line 153 raises.
SameNumber ==
    /\ pc = "counted"
    /\ Len(names) = Len(all_chores)
    /\ raised' = get_current_situation(names, all_chores, <<>>).raised
    /\ pc' = "crashed"
    /\ UNCHANGED <<names, chores, prefs, restricted_askers, largeloop, start_chores, loopvars>>
    /\ UNCHANGED <<weekno, hist, week_chores, do_full_improvement, baseline, sad, rot_chore, rot_todo, bumps>>
    /\ UNCHANGED askvars

\* More people than chores: wildcards are added.
AddWilds ==
    /\ pc = "counted"
    /\ Len(names) > Len(all_chores)
    /\ chores' = get_current_situation(names, all_chores, <<>>).chores
    /\ pc' = "returned"
    /\ UNCHANGED <<names, prefs, restricted_askers, largeloop, start_chores, loopvars>>
    /\ UNCHANGED mainvars
    /\ UNCHANGED askvars

\* More chores than people, and an answer that is not accepted: the question
\* is asked again.
SkRejected ==
    /\ pc = "counted"
    /\ Len(names) < Len(all_chores)
    /\ \E skip \in SkAnswers : ~SkAccepted(skip, names, all_chores) /\ sk' = skip
    /\ UNCHANGED <<names, chores, prefs, restricted_askers, largeloop, start_chores, loopvars, pc>>
    /\ UNCHANGED <<all_chores, oot>>
    /\ UNCHANGED mainvars

\* More chores than people, and an accepted answer: its chores are removed.
SkAnswered ==
    /\ pc = "counted"
    /\ Len(names) < Len(all_chores)
    /\ \E skip \in SkAnswers :
          /\ SkAccepted(skip, names, all_chores)
          /\ sk' = skip
          /\ chores' = get_current_situation(names, all_chores, skip).chores
    /\ pc' = "returned"
    /\ UNCHANGED <<names, prefs, restricted_askers, largeloop, start_chores, loopvars>>
    /\ UNCHANGED <<all_chores, oot>>
    /\ UNCHANGED mainvars

NextAsk ==
    \/ OotRejected
    \/ OotAnswered
    \/ SameNumber
    \/ AddWilds
    \/ SkRejected
    \/ SkAnswered

AskSpec == InitAsk /\ [][NextAsk]_vars

\* ------------------------------------------------------------ the claims

\* The misery of the person n with the assignment ch.
MiseryOf(n, ch) == prefs[n][ch[index(names, n)]]

\* The person after position i of the loop l, the first one after the last.
NextIn(l, i) == l[(i % Len(l)) + 1]

\* The answer f of seek_loop on the chores ch is a loop whose every step is
\* wanted: no person of the loop is more miserable with the chore of the next
\* person, the first person is less miserable, and the improvement is the
\* sum of the decreases and is positive.
GoodLoop(f, ch) ==
    LET l == f.loop
        Drop(i) == MiseryOf(l[i], ch) - prefs[l[i]][ch[index(names, NextIn(l, i))]]
    IN /\ \A i \in 1..Len(l) : Drop(i) >= 0
       /\ Drop(1) > 0
       /\ f.improvement = SumSeq([i \in 1..Len(l) |-> Drop(i)])
       /\ f.improvement > 0

\* C1: every loop seek_loop returns has only weakly improving steps, a
\* strictly improving first step and a positive improvement equal to the sum
\* of the steps' decreases: the loop returned to improve for each asker, and
\* at the start of every pass the loop returned for any start person;
\* improve applies no loop of improvement <= 0, and after an exchange no
\* person of the loop is worse off and one at least is better off.
C1_ReturnedLoopImproves ==
    /\ (pc = "seek" /\ loop # <<>>) =>
           GoodLoop([loop |-> loop, improvement |-> improvement], chores)
    /\ (pc = "seek" /\ ask_i = 1) =>
           \A s \in NameSet :
               \A f \in {seek_loop(names, chores, prefs, s, <<>>, 0, largeloop)} :
                   f.loop # <<>> => GoodLoop(f, chores)
    /\ old_loop # <<>> =>
           /\ \A i \in 1..Len(old_loop) :
                  MiseryOf(old_loop[i], chores) <= MiseryOf(old_loop[i], old_chores)
           /\ \E i \in 1..Len(old_loop) :
                  MiseryOf(old_loop[i], chores) < MiseryOf(old_loop[i], old_chores)

\* A pairwise-only search returned a swap whose second step is an even
\* trade, and improve is about to apply it.
C1_Witness ==
    /\ pc = "seek"
    /\ ~largeloop
    /\ Len(loop) = 2
    /\ MiseryOf(loop[2], chores) = prefs[loop[2]][chores[index(names, loop[1])]]
    /\ improvement > 0

\* C2: the miseries recorded by improve, one after each exchange, decrease
\* strictly, and the last one is the misery of the working assignment.
C2_MiseryDecreases ==
    pc # "main" =>
    /\ \A i \in 1..(Len(historical_misery) - 1) :
           historical_misery[i + 1] < historical_misery[i]
    /\ historical_misery[Len(historical_misery)] = total_misery(names, chores, prefs)
    /\ historical_misery[1] = total_misery(names, start_chores, prefs)

\* Two exchanges have been applied in one run of improve.
C2_Witness == Len(historical_misery) >= 3

\* C3: improve returns: a pass that makes no trade is reached and the loop
\* is left; and no exchange brings back an assignment it has left behind.
C3_Terminates ==
    /\ <>(pc = "done" /\ ~made_trade)
    /\ [](pc # "main" => chores \notin visited)

\* improve has returned after more than one pass and two exchanges.
C3_Witness ==
    /\ pc = "done"
    /\ Cardinality(visited) >= 2
    /\ ~made_trade

\* C4: the assignment improve returns is a fixpoint: it is improve of the
\* starting assignment, improve of it (same table, askers and mode, the
\* asking order computed anew) is itself, and seek_loop finds no loop from
\* any asker.
C4_Idempotent ==
    pc = "done" =>
        /\ \A r \in {improve(names, start_chores, prefs, restricted_askers, largeloop)} :
               /\ r = chores
               /\ improve(names, r, prefs, restricted_askers, largeloop) = r
        /\ \A i \in 1..Len(asking_order) :
               seek_loop(names, chores, prefs, asking_order[i], <<>>, 0, largeloop).loop = <<>>

\* improve has returned a changed assignment for which a second call asks
\* in another order.
C4_Witness ==
    /\ pc = "done"
    /\ chores # start_chores
    /\ SortByMisery(Askers(restricted_askers, names), names, chores, prefs) # asking_order

AfterBaseline == weekno % 4 # 0 /\ pc \in {"rotate", "initial", "improve", "crashed"}

\* The position in hist of the row of the cycle's Monday (0 when none).
OpeningRow == LastWith(hist, MonCy(weekno), Len(hist))

\* Somebody of the cycle's first row is in town this week.
SomebodyKnown ==
    /\ OpeningRow # 0
    /\ \E i \in 1..Len(hist[OpeningRow].assig) : InList(hist[OpeningRow].assig[i][1], names)

\* The lists a and b hold the same chores, each as many times.
SameChores(a, b) ==
    /\ Len(a) = Len(b)
    /\ \A i \in 1..Len(a) :
           Cardinality({j \in 1..Len(a) : a[j] = a[i]}) = Cardinality({j \in 1..Len(b) : b[j] = a[i]})

\* C6, as claimed: whenever the row of the cycle's Monday exists,
\* get_from_current_cycle returns a baseline with one chore per resident
\* that holds this week's chores, each exactly once.
C6_AlwaysBijection ==
    AfterBaseline /\ OpeningRow # 0 =>
        /\ raised = ""
        /\ Len(baseline) = Len(names)
        /\ SameChores(baseline, week_chores)

\* What holds of C6: the baseline is such a bijection whenever somebody of
\* the cycle's first row is in town.
BijectionWhenSomebodyKnown ==
    AfterBaseline /\ SomebodyKnown =>
        /\ raised = ""
        /\ Len(baseline) = Len(names)
        /\ SameChores(baseline, week_chores)

\* The residents of the cycle's first row who are in town, their chores
\* with the wildcards numbered, this week's chores numbered alike, and the
\* extras: this week's chores none of those residents held.
KnownNames == FilterIdx(cc_names_of(hist[OpeningRow]), LAMBDA i : InList(hist[OpeningRow].assig[i][1], names))

KnownChores == TagWilds(FilterIdx(cc_chores_of(hist[OpeningRow]), LAMBDA i : InList(hist[OpeningRow].assig[i][1], names)))

ActiveChores == TagWilds(week_chores)

Extras == FilterIdx(ActiveChores, LAMBDA i : ~InList(ActiveChores[i], KnownChores))

\* The resident at position i keeps the chore of the cycle's first row.
Keeps(i) ==
    /\ InList(names[i], KnownNames)
    /\ InList(KnownChores[index(KnownNames, names[i])], ActiveChores)

\* The chore of the resident at position i by the rule of C7: the kept one,
\* or the extra of the rank of i among the residents who keep none.
RuleChore(i) ==
    IF Keeps(i) THEN KnownChores[index(KnownNames, names[i])]
    ELSE Extras[Cardinality({j \in 1..i : ~Keeps(j)})]

\* C7, as claimed: with the row of the cycle's Monday, each resident who is
\* in that row with a chore still active keeps it, and every other resident
\* receives the next unused extra, in order.
C7_KeepOrDrawNext ==
    AfterBaseline /\ OpeningRow # 0 =>
        /\ raised = ""
        /\ \A i \in 1..Len(names) :
               baseline[i] = (IF HasWild(RuleChore(i), Len(names)) THEN Wild ELSE RuleChore(i))

\* What holds of C7: the rule, whenever somebody of the cycle's first row
\* is in town.
RuleWhenSomebodyKnown ==
    AfterBaseline /\ SomebodyKnown =>
        /\ raised = ""
        /\ \A i \in 1..Len(names) :
               baseline[i] = (IF HasWild(RuleChore(i), Len(names)) THEN Wild ELSE RuleChore(i))

\* The opening row exists, nobody of it is in town, and the call raised.
NobodyKnownRaises ==
    AfterBaseline /\ OpeningRow # 0 /\ ~SomebodyKnown /\ raised = "ValueError"

\* The people of the bumps made so far.
Bumped == UNION {{names[bumps[k][1]], names[bumps[k][2]]} : k \in 1..Len(bumps)}

\* C8, as claimed: after the weekly rotation a resident is in sad if and
\* only if their chore differs from the one of the baseline.
C8_SadIffChanged ==
    weekno % 4 # 0 /\ pc = "initial" =>
        \A i \in 1..Len(names) : InList(names[i], sad) <=> chores[i] # baseline[i]

\* C8, amended: during and after the weekly rotation sad lists, each once,
\* the people of the bumps made (the holder and the person bumped to), and
\* everybody whose chore differs from the one of the baseline is among them.
C8_SadAreTheBumped ==
    weekno % 4 # 0 /\ pc \in {"rotate", "initial"} =>
        /\ {sad[k] : k \in 1..Len(sad)} = Bumped
        /\ Distinct(sad)
        /\ \A i \in 1..Len(names) : chores[i] # baseline[i] => InList(names[i], sad)

\* The weekly rotation is over, somebody's chore has changed, and somebody
\* in sad holds the chore of the baseline.
C8_Witness ==
    /\ weekno % 4 # 0
    /\ pc = "initial"
    /\ chores # baseline
    /\ \E i \in 1..Len(names) : InList(names[i], sad) /\ chores[i] = baseline[i]

\* C9, as claimed: in a later week of a cycle whose first row is missing,
\* improve is handed the baseline of a new cycle, no weekly rotation was
\* applied, sad is empty and the improvement is a full one.
C9_FallBackIsFreshCycle ==
    weekno % 4 # 0 /\ OpeningRow = 0 /\ pc = "improve" =>
        /\ start_chores = FreshCycle(week_chores, weekno)
        /\ bumps = <<>>
        /\ sad = <<>>
        /\ restricted_askers = None
        /\ largeloop

\* What holds of C9: the baseline is the one of a new cycle, and the
\* improvement is a full one.
FallBackIsFull ==
    weekno % 4 # 0 /\ OpeningRow = 0 /\ pc = "improve" =>
        /\ raised = "AssertionError"
        /\ baseline = FreshCycle(week_chores, weekno)
        /\ restricted_askers = None
        /\ largeloop

\* The first row is missing, and improve is handed a rotated baseline.
FallBackRotated ==
    /\ weekno % 4 # 0
    /\ OpeningRow = 0
    /\ pc = "improve"
    /\ start_chores # baseline
    /\ sad # <<>>

\* ------------------------------------------------ the claims on the history

\* C10, as claimed: after any calls of add_to_history, from a history with
\* at most one row per date, the history has at most one row per date.
C10_OneRowPerDate ==
    \A i, j \in 1..Len(hist) : hist[i].mon = hist[j].mon => i = j

\* What holds of C10: no two neighbouring rows of the history have the same
\* date.
NeighboursDiffer ==
    \A i \in 1..(Len(hist) - 1) : hist[i].mon # hist[i + 1].mon

\* ------------------------------------- the claims on get_current_situation

\* The number of chores too many.
Surplus == Len(all_chores) - Len(names)

\* C11, as claimed: for every accepted input get_current_situation returns,
\* with as many chores as residents in town: the chores of the spreadsheet
\* followed by one wildcard per resident too many, or the chores of the
\* spreadsheet less the ones of the accepted answer, as many as there are
\* chores too many, or the chores of the spreadsheet unchanged when the
\* numbers are equal.
C11_ReturnsAsManyChores ==
    pc \in {"counted", "returned", "crashed"} =>
        /\ pc # "crashed"
        /\ pc = "returned" =>
              /\ Len(chores) = Len(names)
              /\ Surplus < 0 => chores = all_chores \o Wilds(-Surplus)
              /\ Surplus = 0 => chores = all_chores
              /\ Surplus > 0 =>
                    /\ chores = FilterIdx(all_chores, LAMBDA i : ~InList(all_chores[i], sk))
                    /\ Len(chores) = Len(all_chores) - Surplus

\* What holds of C11: with more residents than chores the wildcards make up
\* the number, and with more chores than residents and an answer that names
\* no chore twice, the chores left are as many as the residents.
UnequalReturnsAsMany ==
    pc = "returned" /\ Distinct(sk) =>
        /\ Len(chores) = Len(names)
        /\ Surplus < 0 => chores = all_chores \o Wilds(-Surplus)
        /\ Surplus > 0 => chores = FilterIdx(all_chores, LAMBDA i : ~InList(all_chores[i], sk))

\* As many chores as residents in town, and the call raised.
SameNumberRaises ==
    pc = "crashed" /\ Surplus = 0 /\ Len(names) > 0 /\ raised = "UnboundLocalError"

\* ------------------------------------------ the claims on restricted askers

\* C12, as claimed: when a list of restricted askers is given to improve,
\* the empty one included, only its people ask, every exchange made is a
\* loop that starts with one of them, and with an empty list no exchange is
\* made.
C12_OnlyRestrictedAsk ==
    pc \in {"seek", "done"} /\ ~restricted_askers.none =>
        /\ \A i \in 1..Len(asking_order) : InList(asking_order[i], restricted_askers.list)
        /\ old_loop # <<>> => InList(old_loop[1], restricted_askers.list)
        /\ restricted_askers.list = <<>> => chores = start_chores

\* What holds of C12: the same for every list that is not empty.
OnlyListedAsk ==
    pc \in {"seek", "done"} /\ ~restricted_askers.none /\ restricted_askers.list # <<>> =>
        /\ \A i \in 1..Len(asking_order) : InList(asking_order[i], restricted_askers.list)
        /\ old_loop # <<>> => InList(old_loop[1], restricted_askers.list)

\* The list of restricted askers is empty, and an exchange was made.
EmptyListExchange ==
    /\ ~restricted_askers.none
    /\ restricted_askers.list = <<>>
    /\ old_loop # <<>>
    /\ chores # start_chores

\* ------------------------------------------------ the claims on the search

\* The loops of up to maxlen people that start with s: no person twice.
Cycles(s, maxlen) ==
    {c \in UNION {[1..k -> {names[i] : i \in 1..Len(names)}] : k \in 2..maxlen} :
        c[1] = s /\ Distinct(c)}

\* What the person at position i of the loop c gains by taking the chore of
\* the next person.
StepGain(c, i) == MiseryOf(c[i], chores) - prefs[c[i]][chores[index(names, NextIn(c, i))]]

\* The acceptance rule: the first step improves, the later ones do not worsen.
Acceptable(c) == StepGain(c, 1) > 0 /\ \A i \in 2..Len(c) : StepGain(c, i) >= 0

\* The accumulated improvement of the loop c.
ImprovementOf(c) == SumSeq([i \in 1..Len(c) |-> StepGain(c, i)])

\* The loop c is discovered before the loop d by a depth-first search that
\* takes the candidates in the order of names: at the first step where they
\* part, c goes on to (or closes with) the person listed first.
Before(c, d) ==
    \E j \in 1..Len(c) :
        /\ j <= Len(d)
        /\ \A k \in 1..(j - 1) : NextIn(c, k) = NextIn(d, k)
        /\ index(names, NextIn(c, j)) < index(names, NextIn(d, j))

\* The best acceptable loop of up to maxlen people from s, the one
\* discovered first among equals, or no loop.
BestCycle(s, maxlen) ==
    LET ok == {c \in Cycles(s, maxlen) : Acceptable(c)}
        best == CHOOSE c \in ok : \A d \in ok \ {c} :
                    \/ ImprovementOf(d) < ImprovementOf(c)
                    \/ ImprovementOf(d) = ImprovementOf(c) /\ Before(c, d)
    IN IF ok = {} THEN NoLoop
       ELSE [loop |-> best, improvement |-> ImprovementOf(best)]

\* C13, as claimed: seek_loop from s returns the best of all acceptable
\* loops through s, the first discovered among equals, and no loop exactly
\* when there is none.
C13_BestOfAllCycles ==
    pc = "seek" /\ ask_i = 1 =>
        \A s \in NameSet, ll \in BOOLEAN :
            seek_loop(names, chores, prefs, s, <<>>, 0, ll) = BestCycle(s, Len(names))

\* C13, amended: with large loops seek_loop from s returns the best of all
\* acceptable loops through s, with pairwise swaps only the best acceptable
\* loop of two people, the first discovered among equals, and no loop
\* exactly when there is none. With the ranked table and A, B, C holding
\* Lawn, Trash, Wild the search from A returns [A, B, C] with improvement 6,
\* and the exchange leaves them Trash, Wild, Lawn at a total misery of 3.
C13_BestCycleOfTheMode ==
    pc = "seek" /\ ask_i = 1 =>
        /\ \A s \in NameSet :
              /\ seek_loop(names, chores, prefs, s, <<>>, 0, TRUE) = BestCycle(s, Len(names))
              /\ seek_loop(names, chores, prefs, s, <<>>, 0, FALSE) = BestCycle(s, 2)
        /\ prefs = RankedPrefs /\ chores = <<"Lawn", "Trash", "Wild">> =>
              /\ seek_loop(names, chores, prefs, "A", <<>>, 0, TRUE) = [loop |-> <<"A", "B", "C">>, improvement |-> 6]
              /\ ApplyLoop(names, chores, <<"A", "B", "C">>, "A") = <<"Trash", "Wild", "Lawn">>
              /\ total_misery(names, <<"Trash", "Wild", "Lawn">>, prefs) = 3

\* seek_loop is asked from a person with two acceptable loops of the same
\* improvement, and returned the one of three people.
C13_Witness ==
    /\ pc = "seek"
    /\ ask_i = 1
    /\ \E c, d \in {e \in Cycles(asking_order[1], 3) : Acceptable(e)} :
          /\ c # d
          /\ ImprovementOf(c) = ImprovementOf(d)
          /\ loop = c
          /\ Len(c) = 3

\* C14: every loop seek_loop returns from a person s lists at least two
\* people of names, no one twice, and s first; restricted to pairwise swaps
\* it lists exactly two, so that every exchange improve then makes swaps the
\* chores of the asker and of one other person.
C14_LoopsAreSimple ==
    /\ pc = "seek" /\ ask_i = 1 =>
          \A s \in NameSet, ll \in BOOLEAN :
              \A f \in {seek_loop(names, chores, prefs, s, <<>>, 0, ll)} :
                  f.loop # <<>> =>
                      /\ Len(f.loop) >= 2
                      /\ Distinct(f.loop)
                      /\ f.loop[1] = s
                      /\ \A i \in 1..Len(f.loop) : InList(f.loop[i], names)
                      /\ ~ll => Len(f.loop) = 2
    /\ pc = "seek" /\ loop # <<>> => loop[1] = asking_order[ask_i]
    /\ ~largeloop /\ old_loop # <<>> =>
          /\ Len(old_loop) = 2
          /\ InList(old_loop[1], asking_order)
          /\ chores[index(names, old_loop[1])] = old_chores[index(names, old_loop[2])]
          /\ chores[index(names, old_loop[2])] = old_chores[index(names, old_loop[1])]
          /\ \A i \in 1..Len(names) : ~InList(names[i], old_loop) => chores[i] = old_chores[i]

\* A swap was made with pairwise swaps only, where the search with large
\* loops returns a loop of three people.
C14_Witness ==
    /\ ~largeloop
    /\ old_loop # <<>>
    /\ Len(seek_loop(names, old_chores, prefs, old_loop[1], <<>>, 0, TRUE).loop) = 3

\* --------------------------------------------------- the claims on a run

\* C15: all through a run, after each bump of the weekly rotation and after
\* each exchange of improve, the chores are this week's chores, each as
\* many times, one for each of the unchanged names, and no bump is of a
\* holder with itself.
C15_AlwaysAPermutation ==
    /\ names = all_names
    /\ Len(chores) = Len(names)
    /\ SameChores(chores, week_chores)
    /\ \A k \in 1..Len(bumps) : bumps[k][1] # bumps[k][2]

\* improve has returned after an exchange, in a week with two wildcards and
\* with two bumps, the first one to the holder of the second.
C15_Witness ==
    /\ pc = "done"
    /\ old_loop # <<>>
    /\ Cardinality({i \in 1..Len(week_chores) : week_chores[i] = Wild}) >= 2
    /\ \E j, k \in 1..Len(bumps) : j < k /\ bumps[j][2] = bumps[k][1]

====
